---- MODULE Spec2Model ----
(***************************************************************************)
(* code_genie/genie.py: GenieBase, Genie and PandasGenie.                  *)
(*                                                                         *)
(* A wrapper is built by one constructor call: the arguments are stored,   *)
(* the subclass's _get_code asks the client for (code, fn_name), and       *)
(* _extract_executable runs the code in a new dict and looks fn_name up.   *)
(* A built wrapper is invoked through __call__ and read through .code.     *)
(* Python values are modelled as tagged records, namespaces as dicts kept  *)
(* in a heap, exceptions as the name of their class.                       *)
(***************************************************************************)
EXTENDS Integers, Sequences, FiniteSets, TLC

VARIABLES heap, wrappers, ghost, calls, attempts, lastInit, lastCall

vars == <<heap, wrappers, ghost, calls, attempts, lastInit, lastCall>>

(* ------------------------------ bounds --------------------------------- *)

\* constructor calls (successful or not) in one run
MaxAttempts == 2
\* invocations (of any wrapper) in one run
MaxCalls == 2

(* --------------------------- Python values ----------------------------- *)

Names == {"f", "g", "n"}

Absent == [tag |-> "absent", n |-> 0, body |-> ""]
IntVal(i) == [tag |-> "int", n |-> i, body |-> ""]
FnVal(b) == [tag |-> "fn", n |-> 0, body |-> b]

\* mem = {}
EmptyDict == [k \in Names |-> Absent]

\* the module globals of the code that constructs the wrappers
CallerGlobals == [EmptyDict EXCEPT !["n"] = IntVal(7), !["f"] = FnVal("callers_f")]
CallerNs == 1

\* Optional[...] arguments
NoneDict == [some |-> FALSE, v |-> {}]
SomeDict(d) == [some |-> TRUE, v |-> d]
NoneList == [some |-> FALSE, v |-> <<>>]
SomeList(l) == [some |-> TRUE, v |-> l]

\* Union[str, List[str]]
Str(s) == [t |-> "str", s |-> s, l |-> <<>>]
List(l) == [t |-> "list", s |-> "", l |-> l]

(* ---------------------- generated source texts ------------------------- *)

SrcAcc == "n = 0; def f(x): global n; n += x; return n"
SrcBoom == "def g(): raise ValueError"
SrcSyntax == "def f(:"

Codes == {SrcAcc, SrcBoom, SrcSyntax}
FnNames == {"f", "g"}

\* d[name], Absent standing for a KeyError
Lookup(d, name) == IF name \in DOMAIN d THEN d[name] ELSE Absent

\* What running a source text does to the dict it is run in: exec(code, mem).
Exec(code, d) ==
    CASE code = SrcAcc -> [raised |-> "",
                           dict |-> [d EXCEPT !["n"] = IntVal(0), !["f"] = FnVal("acc")]]
      [] code = SrcBoom -> [raised |-> "", dict |-> [d EXCEPT !["g"] = FnVal("boom")]]
      [] code = "" -> [raised |-> "", dict |-> d]
      [] OTHER -> [raised |-> "SyntaxError", dict |-> d]

\* The value bound to parameter x by a call f(*args, **kwargs) of a def f(x).
BindsX(args, kwargs) ==
    \/ Len(args) = 1 /\ kwargs = {}
    \/ Len(args) = 0 /\ \E p \in kwargs : p[1] = "x" /\ kwargs = {p}
ArgX(args, kwargs) ==
    IF Len(args) = 1 THEN args[1] ELSE (CHOOSE p \in kwargs : p[1] = "x")[2]

Ret(v, d) == [kind |-> "ret", val |-> v, exc |-> "", dict |-> d]
Raise(e, d) == [kind |-> "raise", val |-> 0, exc |-> e, dict |-> d]

\* Calling a function object whose globals are the dict d.
CallFn(body, args, kwargs, d) ==
    CASE body = "acc" ->
           IF BindsX(args, kwargs)
           THEN LET m == d["n"].n + ArgX(args, kwargs)
                IN Ret(m, [d EXCEPT !["n"] = IntVal(m)])
           ELSE Raise("TypeError", d)
      [] body = "boom" ->
           IF Len(args) = 0 /\ kwargs = {} THEN Raise("ValueError", d)
           ELSE Raise("TypeError", d)
      [] OTHER -> Raise("TypeError", d)

(* ------------------------- generation service -------------------------- *)

\* What the service answers to one request: an error, or (code, fn_name).
ServiceOutcomes ==
    {[ok |-> FALSE, code |-> "", fn_name |-> ""]}
    \cup {[ok |-> TRUE, code |-> c, fn_name |-> f] : c \in Codes, f \in FnNames}

\* Client.get_generic / Client.get_pandas: the pair the service returned, or
\* the failure of the call.
ClientGet(svc) ==
    IF svc.ok THEN [raised |-> "", code |-> svc.code, fn_name |-> svc.fn_name]
    ELSE [raised |-> "GenerationFailed", code |-> "", fn_name |-> ""]

(* ------------------------------ GenieBase ------------------------------ *)

NoExecutor == [body |-> "", globals |-> 0]

\* the object handed to __init__ by the class call, no attribute set yet
NewObject(cls) ==
    [cls |-> cls, attrs |-> {},
     _inputs |-> NoneDict, _instructions |-> <<>>, _allowed_imports |-> NoneList,
     _columns |-> NoneList, _code |-> "", _fn_name |-> "", _executor |-> NoExecutor]

\* if isinstance(instructions, str): instructions = [instructions]
Normalize(instructions) ==
    IF instructions.t = "str" THEN <<instructions.s>> ELSE instructions.l

\* Genie._get_code
GenieGetCode(self, client, svc) ==
    [op |-> "get_generic", client |-> client,
     request |-> [instructions |-> self._instructions, inputs |-> self._inputs,
                  columns |-> NoneList, allowed_imports |-> self._allowed_imports],
     result |-> ClientGet(svc)]

\* PandasGenie._get_code
PandasGetCode(self, client, svc) ==
    [op |-> "get_pandas", client |-> client,
     request |-> [instructions |-> self._instructions, inputs |-> self._inputs,
                  columns |-> self._columns, allowed_imports |-> self._allowed_imports],
     result |-> ClientGet(svc)]

\* mutant: the tabular class inherits the generic override
GetCodeGenericOnly(self, client, svc) == GenieGetCode(self, client, svc)

\* self._get_code(client=...): the override of the object's class
GetCode(self, client, svc) ==
    IF self.cls = "Genie" THEN GenieGetCode(self, client, svc)
    ELSE PandasGetCode(self, client, svc)

\* mutant: mem is one dict kept on the class and used by every activation
SharedDict(hp) == IF Len(hp) >= 2 THEN 2 ELSE Len(hp) + 1

\* mem = {}: a dict no one else holds
NewDict(hp) == Len(hp) + 1

\* mutant: exec(code) without mem, so the code is defined in the caller's
\* globals and mem stays empty
ExtractExecutableNoMem(code, fn_name, hp) ==
    LET e == Exec(code, hp[CallerNs])
    IN  IF e.raised # ""
        THEN [raised |-> e.raised, fn |-> NoExecutor, heap |-> hp]
        ELSE [raised |-> "KeyError", fn |-> NoExecutor,
              heap |-> [hp EXCEPT ![CallerNs] = e.dict]]

\* GenieBase._extract_executable
ExtractExecutable(code, fn_name, hp) ==
    LET mem == NewDict(hp)
        hp1 == IF mem > Len(hp) THEN Append(hp, EmptyDict) ELSE hp
        e == Exec(code, hp1[mem])
        hp2 == [hp1 EXCEPT ![mem] = e.dict]
    IN  IF e.raised # ""
        THEN [raised |-> e.raised, fn |-> NoExecutor,
              heap |-> IF mem > Len(hp) THEN hp ELSE hp2]
        ELSE IF Lookup(hp2[mem], fn_name).tag = "absent"
        THEN [raised |-> "KeyError", fn |-> NoExecutor,
              heap |-> IF mem > Len(hp) THEN hp ELSE hp2]
        ELSE [raised |-> "", fn |-> [body |-> Lookup(hp2[mem], fn_name).body, globals |-> mem],
              heap |-> hp2]

\* mutant: a failed activation is swallowed and the object returned without
\* its executor
ActivateSwallow(s1, g, hp) ==
    LET s2 == [s1 EXCEPT !._code = g.result.code, !._fn_name = g.result.fn_name,
                         !.attrs = @ \cup {"_code", "_fn_name"}]
        x == ExtractExecutable(s2._code, s2._fn_name, hp)
    IN  IF x.raised # ""
        THEN [raised |-> "", self |-> s2, sent |-> <<g>>,
              steps |-> <<g.op, "exec">>, heap |-> x.heap]
        ELSE [raised |-> "",
              self |-> [s2 EXCEPT !._executor = x.fn, !.attrs = @ \cup {"_executor"}],
              sent |-> <<g>>, steps |-> <<g.op, "exec">>, heap |-> x.heap]

\* what __init__ does with the pair _get_code returned (lines 34-35)
Activate(s1, g, hp) ==
    LET s2 == [s1 EXCEPT !._code = g.result.code, !._fn_name = g.result.fn_name,
                         !.attrs = @ \cup {"_code", "_fn_name"}]
        x == ExtractExecutable(s2._code, s2._fn_name, hp)
    IN  IF x.raised # ""
        THEN [raised |-> x.raised, self |-> s2, sent |-> <<g>>,
              steps |-> <<g.op, "exec">>, heap |-> x.heap]
        ELSE [raised |-> "",
              self |-> [s2 EXCEPT !._executor = x.fn, !.attrs = @ \cup {"_executor"}],
              sent |-> <<g>>, steps |-> <<g.op, "exec">>, heap |-> x.heap]

\* mutant: the failure of _get_code is caught and activation goes on with
\* an empty code and name
GenieBaseInitSwallow(self, instructions, inputs, allowed_imports, client, svc, hp) ==
    LET s1 == [self EXCEPT !._inputs = inputs,
                           !._instructions = Normalize(instructions),
                           !._allowed_imports = allowed_imports,
                           !.attrs = @ \cup {"_inputs", "_instructions", "_allowed_imports"}]
        cl == IF client = "None" THEN "Client()" ELSE client
        g == GetCode(s1, cl, svc)
    IN  Activate(s1, g, hp)

\* GenieBase.__init__
GenieBaseInit(self, instructions, inputs, allowed_imports, client, svc, hp) ==
    LET s1 == [self EXCEPT !._inputs = inputs,
                           !._instructions = Normalize(instructions),
                           !._allowed_imports = allowed_imports,
                           !.attrs = @ \cup {"_inputs", "_instructions", "_allowed_imports"}]
        cl == IF client = "None" THEN "Client()" ELSE client
        g == GetCode(s1, cl, svc)
    IN  IF g.result.raised # ""
        THEN [raised |-> g.result.raised, self |-> s1, sent |-> <<g>>,
              steps |-> <<g.op>>, heap |-> hp]
        ELSE Activate(s1, g, hp)

\* PandasGenie.__init__
PandasGenieInit(self, instructions, columns, inputs, allowed_imports, client, svc, hp) ==
    LET s0 == [self EXCEPT !._columns = columns, !.attrs = @ \cup {"_columns"}]
    IN  GenieBaseInit(s0, instructions, inputs, allowed_imports, client, svc, hp)

\* mutant: return self._executor(*args)
GenieCallNoKwargs(self, args, kwargs, hp) ==
    LET r == CallFn(self._executor.body, args, {}, hp[self._executor.globals])
    IN  [kind |-> r.kind, val |-> r.val, exc |-> r.exc,
         heap |-> [hp EXCEPT ![self._executor.globals] = r.dict]]

\* GenieBase.__call__
GenieCall(self, args, kwargs, hp) ==
    LET r == CallFn(self._executor.body, args, kwargs, hp[self._executor.globals])
    IN  [kind |-> r.kind, val |-> r.val, exc |-> r.exc,
         heap |-> [hp EXCEPT ![self._executor.globals] = r.dict]]

\* mutant: the accessor returns the other half of the pair
GenieCodeFnName(self) == self._fn_name

\* GenieBase.code
GenieCode(self) == self._code

(* ------------------------- constructor arguments ----------------------- *)

XInput == {<<"x", "a number">>}
DfInput == {<<"df", "a pandas dataframe">>}
BadKeyInput == {<<"", "no name">>}

\* Genie(instructions, inputs, allowed_imports, client)
GenieArgs ==
    {[instructions |-> Str("sum"), columns |-> NoneList, inputs |-> SomeDict(XInput),
      allowed_imports |-> NoneList, client |-> "stub"],
     [instructions |-> Str(""), columns |-> NoneList, inputs |-> SomeDict(XInput),
      allowed_imports |-> NoneList, client |-> "stub"],
     [instructions |-> List(<<>>), columns |-> NoneList, inputs |-> SomeDict(BadKeyInput),
      allowed_imports |-> SomeList(<<"math">>), client |-> "None"]}

\* PandasGenie(instructions, columns, inputs, allowed_imports, client)
PandasArgs ==
    {[instructions |-> Str("sum"), columns |-> NoneList, inputs |-> NoneDict,
      allowed_imports |-> NoneList, client |-> "stub"],
     [instructions |-> List(<<"sum">>), columns |-> SomeList(<<"a">>),
      inputs |-> SomeDict(DfInput), allowed_imports |-> SomeList(<<"math">>),
      client |-> "None"]}

\* f(*args, **kwargs)
CallArgs == {<<>>, <<1>>}
CallKwargs == {{}, {<<"x", 2>>}}

(* ------------------------------- state --------------------------------- *)

NoInit ==
    [cls |-> "", args |-> CHOOSE a \in GenieArgs : TRUE,
     svc |-> CHOOSE o \in ServiceOutcomes : ~o.ok,
     raised |-> "", sent |-> <<>>, steps |-> <<>>, attrs |-> {}, before |-> 0]
NoCall ==
    [count |-> 0, w |-> 0, args |-> <<>>, kwargs |-> {}, kind |-> "", val |-> 0,
     exc |-> "", pre |-> EmptyDict]

Init ==
    /\ heap = <<CallerGlobals>>
    /\ wrappers = <<>>
    /\ ghost = <<>>
    /\ calls = [get_generic |-> 0, get_pandas |-> 0]
    /\ attempts = [Genie |-> 0, PandasGenie |-> 0]
    /\ lastInit = NoInit
    /\ lastCall = NoCall

CountOp(sent, op) == Cardinality({i \in 1..Len(sent) : sent[i].op = op})

\* The caller's side of one constructor call whose outcome is r: the service
\* has been called for every request sent, and the caller holds the object
\* only if __init__ returned.
Constructed(cls, a, svc, r) ==
    /\ heap' = r.heap
    /\ calls' = [get_generic |-> calls.get_generic + CountOp(r.sent, "get_generic"),
                 get_pandas |-> calls.get_pandas + CountOp(r.sent, "get_pandas")]
    /\ attempts' = [attempts EXCEPT ![cls] = @ + 1]
    /\ lastInit' = [cls |-> cls, args |-> a, svc |-> svc, raised |-> r.raised,
                    sent |-> r.sent, steps |-> r.steps, attrs |-> r.self.attrs,
                    before |-> Len(wrappers)]
    /\ IF r.raised = ""
       THEN /\ wrappers' = Append(wrappers, r.self)
            /\ ghost' = Append(ghost,
                   [code |-> svc.code, fn_name |-> svc.fn_name,
                    ns |-> Exec(svc.code, EmptyDict).dict, ncalls |-> 0])
       ELSE UNCHANGED <<wrappers, ghost>>
    /\ UNCHANGED lastCall

\* g = Genie(...)
NewGenie ==
    /\ attempts.Genie + attempts.PandasGenie < MaxAttempts
    /\ \E a \in GenieArgs, svc \in ServiceOutcomes :
         Constructed("Genie", a, svc,
             GenieBaseInit(NewObject("Genie"), a.instructions, a.inputs,
                           a.allowed_imports, a.client, svc, heap))

\* g = PandasGenie(...)
NewPandasGenie ==
    /\ attempts.Genie + attempts.PandasGenie < MaxAttempts
    /\ \E a \in PandasArgs, svc \in ServiceOutcomes :
         Constructed("PandasGenie", a, svc,
             PandasGenieInit(NewObject("PandasGenie"), a.instructions, a.columns,
                             a.inputs, a.allowed_imports, a.client, svc, heap))

\* g(*args, **kwargs)
Invoke ==
    /\ lastCall.count < MaxCalls
    /\ \E w \in 1..Len(wrappers), args \in CallArgs, kwargs \in CallKwargs :
         LET r == GenieCall(wrappers[w], args, kwargs, heap)
             replay == CallFn(wrappers[w]._executor.body, args, kwargs, ghost[w].ns)
         IN  /\ heap' = r.heap
             /\ lastCall' = [count |-> lastCall.count + 1, w |-> w, args |-> args,
                             kwargs |-> kwargs, kind |-> r.kind, val |-> r.val,
                             exc |-> r.exc, pre |-> heap[wrappers[w]._executor.globals]]
             /\ ghost' = [ghost EXCEPT ![w].ns = replay.dict, ![w].ncalls = @ + 1]
             /\ UNCHANGED <<wrappers, calls, attempts, lastInit>>

Next == NewGenie \/ NewPandasGenie \/ Invoke

Spec == Init /\ [][Next]_vars

(* ------------------------------ properties ----------------------------- *)

NonEmptyInstructions(i) == IF i.t = "str" THEN i.s # "" ELSE i.l # <<>>
WellFormedInputs(inp) == \A p \in inp.v : p[1] # ""

\* the value the returned code binds to the returned name, defined on its own
Defined(svc) == Lookup(Exec(svc.code, EmptyDict).dict, svc.fn_name)
ValidResult(svc) ==
    svc.ok /\ Exec(svc.code, EmptyDict).raised = "" /\ Defined(svc).tag = "fn"
MissingName(svc) ==
    svc.ok /\ Exec(svc.code, EmptyDict).raised = "" /\ Defined(svc).tag = "absent"

Attempted == lastInit.cls # ""
Succeeded == Attempted /\ lastInit.raised = "" /\ Len(wrappers) = lastInit.before + 1
NoWrapper == Attempted /\ lastInit.raised # "" /\ Len(wrappers) = lastInit.before
Built == wrappers[Len(wrappers)]

\* the object can be called: its executor is the function its namespace
\* binds to its function name
Callable(self) ==
    /\ self._executor.globals \in 2..Len(heap)
    /\ Lookup(heap[self._executor.globals], self._fn_name).tag = "fn"
    /\ Lookup(heap[self._executor.globals], self._fn_name).body = self._executor.body
Ready(self) == {"_code", "_fn_name", "_executor"} \subseteq self.attrs

\* C1: with non-empty instructions and well-formed inputs, either constructor
\* succeeds and yields a callable wrapper whenever the service returns code
\* that parses and defines the returned function name.
C1_ValidCodeConstructs ==
    (/\ Attempted
     /\ NonEmptyInstructions(lastInit.args.instructions)
     /\ WellFormedInputs(lastInit.args.inputs)
     /\ ValidResult(lastInit.svc))
    => (Succeeded /\ Ready(Built) /\ Callable(Built))
C1_Witness ==
    /\ Succeeded /\ lastInit.cls = "PandasGenie"
    /\ NonEmptyInstructions(lastInit.args.instructions)
    /\ WellFormedInputs(lastInit.args.inputs)
    /\ ValidResult(lastInit.svc) /\ Callable(Built)

\* C2: when the returned code, once defined, does not bind the returned
\* function name, construction fails with ActivationError and no wrapper is
\* produced.
C2_MissingNameIsActivationError ==
    (Attempted /\ MissingName(lastInit.svc))
    => (NoWrapper /\ lastInit.raised = "ActivationError")

\* C3: when the generation call fails, construction fails with
\* GenerationFailed, for the generic and for the tabular constructor.
C3_ServiceErrorIsGenerationFailed ==
    (Attempted /\ ~lastInit.svc.ok)
    => (NoWrapper /\ lastInit.raised = "GenerationFailed")
C3_Witness ==
    /\ NoWrapper /\ lastInit.cls = "PandasGenie" /\ ~lastInit.svc.ok
    /\ lastInit.raised = "GenerationFailed" /\ attempts.Genie = 1

\* C4: construction with empty instructions, or with an inputs key that is
\* not a non-empty string, fails with InvalidArgument before any call to the
\* generation service.
C4_BadArgumentsRejectedBeforeCall ==
    (/\ Attempted
     /\ \/ ~NonEmptyInstructions(lastInit.args.instructions)
        \/ ~WellFormedInputs(lastInit.args.inputs))
    => (NoWrapper /\ lastInit.raised = "InvalidArgument" /\ lastInit.sent = <<>>)

\* C5: PandasGenie called without inputs sends get_pandas a request whose
\* inputs is a mapping of exactly one entry, never None.
C5_PandasDefaultInput ==
    (Attempted /\ lastInit.cls = "PandasGenie" /\ ~lastInit.args.inputs.some)
    => (/\ Len(lastInit.sent) = 1
        /\ lastInit.sent[1].op = "get_pandas"
        /\ lastInit.sent[1].request.inputs.some
        /\ Cardinality(lastInit.sent[1].request.inputs.v) = 1)

C7_OneCallPerConstruction ==
    /\ calls.get_generic = attempts.Genie
    /\ calls.get_pandas = attempts.PandasGenie
    /\ Attempted => Len(lastInit.sent) = 1
C7_Witness ==
    /\ attempts.Genie = 1 /\ attempts.PandasGenie = 1
    /\ Len(wrappers) = 1 /\ lastCall.count = 2 /\ ~lastInit.svc.ok

\* the outcome of the function the service's code defines, applied to the
\* caller's arguments in the namespace as it was before the call
Direct(w) ==
    CallFn(Lookup(Exec(ghost[w].code, EmptyDict).dict, ghost[w].fn_name).body,
           lastCall.args, lastCall.kwargs, lastCall.pre)

\* C8: an invocation hands the caller's positional and keyword arguments to
\* the activated function and gives back its result, or its fault, as is.
C8_CallPassThrough ==
    lastCall.count > 0 =>
        /\ lastCall.kind = Direct(lastCall.w).kind
        /\ lastCall.val = Direct(lastCall.w).val
        /\ lastCall.exc = Direct(lastCall.w).exc
C8_Witness ==
    /\ lastCall.count = 2 /\ lastCall.kind = "ret" /\ lastCall.val = 3
    /\ lastCall.kwargs # {}

\* C9: the code accessor gives the text the service returned for that
\* wrapper, and the stored code, function name and executor are the same
\* after any invocations, successful or faulting.
C9_CodeIsServiceText ==
    \A w \in 1..Len(wrappers) :
        /\ GenieCode(wrappers[w]) = ghost[w].code
        /\ wrappers[w]._fn_name = ghost[w].fn_name
        /\ wrappers[w]._executor.body =
               Lookup(Exec(ghost[w].code, EmptyDict).dict, ghost[w].fn_name).body
C9_Witness ==
    /\ Len(wrappers) = 1 /\ ghost[1].ncalls = 2 /\ lastCall.kind = "raise"
    /\ GenieCode(wrappers[1]) = SrcAcc

\* C10: every wrapper has a namespace of its own that started empty: it
\* holds what the wrapper's own code and invocations put there, whatever
\* other wrappers did, and the caller's namespace is as it was.
C10_NamespacesIsolated ==
    /\ heap[CallerNs] = CallerGlobals
    /\ \A w \in 1..Len(wrappers) :
         /\ wrappers[w]._executor.globals # CallerNs
         /\ heap[wrappers[w]._executor.globals] = ghost[w].ns
         /\ \A v \in 1..Len(wrappers) :
              v # w => wrappers[v]._executor.globals # wrappers[w]._executor.globals
C10_Witness ==
    /\ Len(wrappers) = 2
    /\ ghost[1].code = SrcAcc /\ ghost[2].code = SrcAcc
    /\ heap[wrappers[1]._executor.globals]["n"].n = 3
    /\ heap[wrappers[2]._executor.globals]["n"].n = 0

====
